---- MODULE Spec2Model ----
(***************************************************************************)
(* Model of the two generators of docs/competition.svg:                    *)
(*   hw1 : src/hw1/svg_competition.py                                      *)
(*   src : src/src/generate_competition_svg.py                             *)
(* Each generator is a straight-line program that writes one record after  *)
(* the other.  One step of the model writes one record (or skips one grid  *)
(* cell).  The output document is kept as its most recent record `last`,   *)
(* the number of records written per layer `count`, and the set of texture *)
(* ids declared so far `textures`.                                         *)
(*                                                                         *)
(* Numbers.  Cartesian coordinates are integers in units of 1/Scale, the   *)
(* resolution of the "%.4f" output format; every Cartesian coordinate the  *)
(* programs compute for an integer canvas is an exact multiple of that     *)
(* unit, so formatting them loses nothing.  Texture coordinates are in     *)
(* units of 1/UVScale ("%.6f").  Spiral vertices are kept in polar form    *)
(* about the spiral centre: the record [cx, cy, r, a] denotes the point    *)
(* (cx + r cos a, cy + r sin a), with r in units of 1/RScale and a in      *)
(* units of 1/Turn of a full turn (2 * math.pi is Turn).  Two polar        *)
(* records with r > 0 denote the same point iff centre and r agree and the *)
(* angles agree modulo Turn.                                               *)
(***************************************************************************)
EXTENDS Integers, Sequences, FiniteSets, TLC

VARIABLES variant, W, H, pc, idx, arm, seg, row, col, k, last, count, textures

vars == <<variant, W, H, pc, idx, arm, seg, row, col, k, last, count, textures>>

(* ------------------------------ bounds --------------------------------- *)
\* canvases: the reference canvas DefaultSide x DefaultSide (W, H = 800, 800),
\* and MaxSide further sides, none a multiple of a grid step
MaxSide == 3

DefaultSide == 800

Variants == {"hw1", "src"}

(* ------------------------------ units ---------------------------------- *)
Scale == 10000

UVScale == 1000000

\* n hundredths of a canvas unit / of the texture range
Cent(n) == n * (Scale \div 100)

Pct(n) == n * (UVScale \div 100)

Pt(x, y) == [x |-> x, y |-> y]

UV(u, v) == [u |-> Pct(u), v |-> Pct(v)]

Polar(cx, cy, r, a) == [cx |-> cx, cy |-> cy, r |-> r, a |-> a]

Layers == <<"texture", "background", "spiral", "diamond", "panels", "hills", "accents", "footer">>

LayerSet == {Layers[n] : n \in 1..Len(Layers)}

Rank(layer) == CHOOSE n \in 1..Len(Layers) : Layers[n] = layer

(* ------------------------------ records -------------------------------- *)
NoRecord == [kind |-> "none", layer |-> "none", fill |-> "", texid |-> "", pts |-> <<>>, uvs |-> <<>>]

\* svg_competition.py: f.write('<texture filename=... texid="map"/>')
texture(texid) ==
    [kind |-> "texture", layer |-> "texture", fill |-> "", texid |-> texid, pts |-> <<>>, uvs |-> <<>>]

\* generate_competition_svg.py polygon(fill, points); also the hills of hw1
polygon(layer, fill, points) ==
    [kind |-> "polygon", layer |-> layer, fill |-> fill, texid |-> "", pts |-> points, uvs |-> <<>>]

emit_triangle(layer, p0, p1, p2, fill) == polygon(layer, fill, <<p0, p1, p2>>)

textri(texid, uvs, points) ==
    [kind |-> "textri", layer |-> "panels", fill |-> "", texid |-> texid, pts |-> points, uvs |-> uvs]

footer ==
    [kind |-> "footer", layer |-> "footer", fill |-> "", texid |-> "", pts |-> <<>>, uvs |-> <<>>]

(* ------------------------------ background ----------------------------- *)
Hw1Background(w, h) ==
    << emit_triangle("background", Pt(0, 0), Pt(w * Scale, 0), Pt(0, h * (Scale \div 2)), "#0a0e1a"),
       emit_triangle("background", Pt(w * Scale, 0), Pt(w * Scale, h * (Scale \div 2)), Pt(0, h * (Scale \div 2)), "#0a0e1a"),
       emit_triangle("background", Pt(0, h * (Scale \div 2)), Pt(w * Scale, h * (Scale \div 2)), Pt(0, h * Scale), "#141c28"),
       emit_triangle("background", Pt(w * Scale, h * (Scale \div 2)), Pt(w * Scale, h * Scale), Pt(0, h * Scale), "#141c28") >>

\* the upper right triangle cut along the other diagonal
SrcBackgroundOverlap(w, h) ==
    << polygon("background", "#0a0e1a", <<Pt(0, 0), Pt(w * Scale, 0), Pt(0, (h * Scale) \div 2)>>),
       polygon("background", "#0a0e1a", <<Pt(w * Scale, 0), Pt(w * Scale, (h * Scale) \div 2), Pt(0, 0)>>),
       polygon("background", "#141c28", <<Pt(0, (h * Scale) \div 2), Pt(w * Scale, (h * Scale) \div 2), Pt(0, h * Scale)>>),
       polygon("background", "#141c28", <<Pt(w * Scale, (h * Scale) \div 2), Pt(w * Scale, h * Scale), Pt(0, h * Scale)>>) >>

SrcBackground(w, h) ==
    << polygon("background", "#0a0e1a", <<Pt(0, 0), Pt(w * Scale, 0), Pt(0, (h * Scale) \div 2)>>),
       polygon("background", "#0a0e1a", <<Pt(w * Scale, 0), Pt(w * Scale, (h * Scale) \div 2), Pt(0, (h * Scale) \div 2)>>),
       polygon("background", "#141c28", <<Pt(0, (h * Scale) \div 2), Pt(w * Scale, (h * Scale) \div 2), Pt(0, h * Scale)>>),
       polygon("background", "#141c28", <<Pt(w * Scale, (h * Scale) \div 2), Pt(w * Scale, h * Scale), Pt(0, h * Scale)>>) >>

(* ------------------------------ spiral --------------------------------- *)
spiral_colors == <<"#3b82f6", "#8b5cf6", "#ec4899", "#f43f5e", "#f97316", "#eab308", "#22c55e">>

\* hw1
n_arms == 7

triangles_per_arm == 24

\* src
num_arms == 7

segments_per_arm == 24

\* angle units per full turn: 2 * math.pi is Turn
Turn == 2 * n_arms * triangles_per_arm

\* radius units per canvas unit
RScale == 40 * triangles_per_arm

\* a1 computed from t0 instead of t1
Hw1WedgeGap(w, h, a, i) ==
    LET cx == w * (Scale \div 2)
        cy == h * Cent(45)
        base_angle == (Turn * a) \div n_arms
        color == spiral_colors[(a % Len(spiral_colors)) + 1]
        r0 == 40 * RScale + (i * 220 * RScale) \div triangles_per_arm
        r1 == 40 * RScale + ((i + 1) * 220 * RScale) \div triangles_per_arm
        a0 == base_angle + (i * 2 * Turn) \div triangles_per_arm
        a1 == base_angle + (i * 2 * Turn) \div triangles_per_arm
        r2 == r0 + (r1 - r0) \div 2
        a2 == (a0 + a1) \div 2
    IN  emit_triangle("spiral", Polar(cx, cy, r0, a0), Polar(cx, cy, r1, a1),
                      Polar(cx, cy, r2 - 15 * RScale, a2), color)

\* svg_competition.py, body of the loops over arm and i; t0 = i / triangles_per_arm
Hw1Wedge(w, h, a, i) ==
    LET cx == w * (Scale \div 2)
        cy == h * Cent(45)
        base_angle == (Turn * a) \div n_arms
        color == spiral_colors[(a % Len(spiral_colors)) + 1]
        r0 == 40 * RScale + (i * 220 * RScale) \div triangles_per_arm
        r1 == 40 * RScale + ((i + 1) * 220 * RScale) \div triangles_per_arm
        a0 == base_angle + (i * 2 * Turn) \div triangles_per_arm
        a1 == base_angle + ((i + 1) * 2 * Turn) \div triangles_per_arm
        r2 == r0 + (r1 - r0) \div 2
        a2 == (a0 + a1) \div 2
    IN  emit_triangle("spiral", Polar(cx, cy, r0, a0), Polar(cx, cy, r1, a1),
                      Polar(cx, cy, r2 - 15 * RScale, a2), color)

\* generate_competition_svg.py, body of the loops over arm and i
SrcWedge(w, h, a, i) ==
    LET CENTER_X == (w * Scale) \div 2
        CENTER_Y == (h * Scale) \div 2
        color == spiral_colors[(a % Len(spiral_colors)) + 1]
        r0 == 50 * RScale + (230 * RScale * i) \div segments_per_arm
        r1 == 50 * RScale + (230 * RScale * (i + 1)) \div segments_per_arm
        a0 == (Turn * i) \div segments_per_arm
        a1 == (Turn * (i + 1)) \div segments_per_arm
        r_mid == (((r0 + r1) \div 2) * 85) \div 100
        a_mid == (a0 + a1) \div 2
    IN  polygon("spiral", color, <<Polar(CENTER_X, CENTER_Y, r0, a0),
                                   Polar(CENTER_X, CENTER_Y, r1, a1),
                                   Polar(CENTER_X, CENTER_Y, r_mid, a_mid)>>)

(* ------------------------------ diamond tiling ------------------------- *)
HexDigit == <<"0", "1", "2", "3", "4", "5", "6", "7", "8", "9", "a", "b", "c", "d", "e", "f">>

\* format spec 02x, for 0 <= n < 256
Hex2(n) == HexDigit[(n \div 16) + 1] \o HexDigit[(n % 16) + 1]

\* math.cos and math.sin of n quarter turns (n * math.pi / 2), to the
\* precision of the output format
Cos4(n) == <<1, 0, -1, 0>>[(n % 4) + 1]

Sin4(n) == <<0, 1, 0, -1>>[(n % 4) + 1]

Abs(n) == IF n < 0 THEN -n ELSE n

tile_sz == 28

\* two columns too many
Hw1ColsWide(w) == w \div tile_sz + 4

\* range(0, H // tile_sz + 2), range(0, W // tile_sz + 2)
Hw1Cols(w) == w \div tile_sz + 2

Hw1Rows(h) == h \div tile_sz + 2

\* if oy > H * 0.7: continue
Hw1Skip(w, h, r, c) == r * tile_sz * 10 > h * 7

\* (cx_t, cy_t)
Hw1Centre(r, c) ==
    LET ox == c * tile_sz + (r % 2) * (tile_sz \div 2)
        oy == r * tile_sz
    IN  Pt(ox * Scale + (tile_sz * Scale) \div 2, oy * Scale + (tile_sz * Scale) \div 2)

\* tile_sz * 0.45
Hw1Half == tile_sz * Cent(45)

Hw1DiamondTri(r, c, kk) ==
    LET p0 == Hw1Centre(r, c)
        p1 == Pt(p0.x + Hw1Half * Cos4(kk), p0.y + Hw1Half * Sin4(kk))
        p2 == Pt(p0.x + Hw1Half * Cos4(kk + 1), p0.y + Hw1Half * Sin4(kk + 1))
        shade == 15 + 25 * ((r + c) % 3)
        rr == (30 * 100 + shade * 80) \div 100
        gg == (40 * 100 + shade * 60) \div 100
        bb == (70 * 100 + shade * 50) \div 100
    IN  emit_triangle("diamond", p0, p1, p2, "#" \o Hex2(rr) \o Hex2(gg) \o Hex2(bb))

diamond_size == Cent(1260)

diamond_colors == <<"#2a314d", "#3e405a", "#524f66">>

\* range(0, int(H / diamond_size) + 2), range(0, int(W / diamond_size) + 2)
SrcRows(h) == (h * Scale) \div diamond_size + 2

SrcCols(w) == (w * Scale) \div diamond_size + 2

\* (cx, cy)
SrcCentre(r, c) ==
    Pt(c * diamond_size + (IF r % 2 # 0 THEN diamond_size \div 2 ELSE 0), r * diamond_size)

\* if cx > W + diamond_size or cy > H + diamond_size: continue
SrcSkip(w, h, r, c) ==
    \/ SrcCentre(r, c).x > w * Scale + diamond_size
    \/ SrcCentre(r, c).y > h * Scale + diamond_size

\* d
SrcHalf == diamond_size \div 2

SrcDiamondTri(r, c, kk) ==
    LET cx == SrcCentre(r, c).x
        cy == SrcCentre(r, c).y
        color == diamond_colors[((r + c) % 3) + 1]
        d == SrcHalf
        dir == << <<d, 0>>, <<0, d>>, <<-d, 0>>, <<0, -d>> >>[kk + 1]
        dx == dir[1]
        dy == dir[2]
        v1 == IF Abs(dx) > Cent(1) THEN Pt(cx + dx, cy + d) ELSE Pt(cx + d, cy + dy)
        v2 == IF Abs(dx) > Cent(1) THEN Pt(cx + dx, cy - d) ELSE Pt(cx - d, cy + dy)
    IN  polygon("diamond", color, <<Pt(cx, cy), Pt(v1.x, v1.y), Pt(v2.x, v2.y)>>)

(* ------------------------------ textured panels ------------------------ *)
\* for tri_inds in [(0, 1, 2), (0, 2, 3)], one-based
tri_inds == << <<1, 2, 3>>, <<1, 3, 4>> >>

\* the uvs of the second and third vertex exchanged
emit_textured_quad_misaligned(texid, corners, uvs) ==
    [n \in 1..Len(tri_inds) |->
        LET i == tri_inds[n][1]
            j == tri_inds[n][2]
            kk == tri_inds[n][3]
        IN  textri(texid, <<uvs[i], uvs[kk], uvs[j]>>, <<corners[i], corners[j], corners[kk]>>)]

emit_textured_quad(texid, corners, uvs) ==
    [n \in 1..Len(tri_inds) |->
        LET i == tri_inds[n][1]
            j == tri_inds[n][2]
            kk == tri_inds[n][3]
        IN  textri(texid, <<uvs[i], uvs[j], uvs[kk]>>, <<corners[i], corners[j], corners[kk]>>)]

\* corners of the panel at (x0, y0) of size pw x ph (canvas units)
Hw1Corners(x0, y0, pw, ph) ==
    << Pt(x0, y0), Pt(x0 + pw * Scale, y0),
       Pt(x0 + pw * Scale, y0 + ph * Scale), Pt(x0, y0 + ph * Scale) >>

\* the first panel placed at W * 0.5 instead of W * 0.15
Hw1PanelsMoved(w, h) ==
    emit_textured_quad("map", Hw1Corners(w * Cent(50), h * Cent(58), 220, 160),
                       <<UV(20, 25), UV(55, 25), UV(55, 60), UV(20, 60)>>)
    \o emit_textured_quad("map", Hw1Corners(w * Cent(52), h * Cent(62), 180, 130),
                       <<UV(50, 10), UV(90, 10), UV(90, 50), UV(50, 50)>>)
    \o emit_textured_quad("map", Hw1Corners(w * Cent(68), h * Cent(52), 90, 95),
                       <<UV(10, 60), UV(35, 60), UV(35, 90), UV(10, 90)>>)

Hw1Panels(w, h) ==
    emit_textured_quad("map", Hw1Corners(w * Cent(15), h * Cent(58), 220, 160),
                       <<UV(20, 25), UV(55, 25), UV(55, 60), UV(20, 60)>>)
    \o emit_textured_quad("map", Hw1Corners(w * Cent(52), h * Cent(62), 180, 130),
                       <<UV(50, 10), UV(90, 10), UV(90, 50), UV(50, 50)>>)
    \o emit_textured_quad("map", Hw1Corners(w * Cent(68), h * Cent(52), 90, 95),
                       <<UV(10, 60), UV(35, 60), UV(35, 90), UV(10, 90)>>)

\* a literal point of the source, in canvas units
P(x, y) == Pt(x * Scale, y * Scale)

SrcPanels(w, h) ==
    << textri("map", <<UV(20, 25), UV(55, 25), UV(55, 60)>>, <<P(120, 464), P(340, 464), P(340, 624)>>),
       textri("map", <<UV(20, 25), UV(55, 60), UV(20, 60)>>, <<P(120, 464), P(340, 624), P(120, 624)>>),
       textri("map", <<UV(50, 10), UV(90, 10), UV(90, 50)>>, <<P(416, 496), P(596, 496), P(596, 626)>>),
       textri("map", <<UV(50, 10), UV(90, 50), UV(50, 50)>>, <<P(416, 496), P(596, 626), P(416, 626)>>),
       textri("map", <<UV(10, 60), UV(35, 60), UV(35, 90)>>, <<P(544, 416), P(634, 416), P(634, 511)>>),
       textri("map", <<UV(10, 60), UV(35, 90), UV(10, 90)>>, <<P(544, 416), P(634, 511), P(544, 511)>>) >>

(* ------------------------------ hills and accents ---------------------- *)
\* (pts[i], pts[i+1]) for i in range(0, len(pts), 2)
PairUp(flat) == [n \in 1..(Len(flat) \div 2) |-> P(flat[2 * n - 1], flat[2 * n])]

Hw1Hills(w, h) ==
    << polygon("hills", "#1e293b", PairUp(<<0, 420, 120, 380, 280, 400, 450, 360, 600, 390, w, 370, w, h, 0, h>>)),
       polygon("hills", "#334155", PairUp(<<0, 520, 200, 460, 400, 500, 550, 450, 720, 480, w, 440, w, h, 0, h>>)),
       polygon("hills", "#0f172a", PairUp(<<0, 620, 80, 580, 240, 610, 380, 560, 520, 600, 680, 570, w, 590, w, h, 0, h>>)) >>

\* the nine-vertex hill listed second
SrcHillsReordered(w, h) ==
    << polygon("hills", "#1e293b", <<P(0, 420), P(120, 380), P(280, 400), P(450, 360), P(600, 390), P(w, 370), P(w, h), P(0, h)>>),
       polygon("hills", "#0f172a", <<P(0, 620), P(80, 580), P(240, 610), P(380, 560), P(520, 600), P(680, 570), P(w, 590), P(w, h), P(0, h)>>),
       polygon("hills", "#334155", <<P(0, 520), P(200, 460), P(400, 500), P(550, 450), P(720, 480), P(w, 440), P(w, h), P(0, h)>>) >>

SrcHills(w, h) ==
    << polygon("hills", "#1e293b", <<P(0, 420), P(120, 380), P(280, 400), P(450, 360), P(600, 390), P(w, 370), P(w, h), P(0, h)>>),
       polygon("hills", "#334155", <<P(0, 520), P(200, 460), P(400, 500), P(550, 450), P(720, 480), P(w, 440), P(w, h), P(0, h)>>),
       polygon("hills", "#0f172a", <<P(0, 620), P(80, 580), P(240, 610), P(380, 560), P(520, 600), P(680, 570), P(w, 590), P(w, h), P(0, h)>>) >>

\* the last accent left out
Hw1AccentsTwo ==
    << emit_triangle("accents", P(120, 680), P(155, 600), P(190, 680), "#4ade80"),
       emit_triangle("accents", P(380, 690), P(415, 610), P(450, 690), "#38bdf8") >>

Hw1Accents ==
    << emit_triangle("accents", P(120, 680), P(155, 600), P(190, 680), "#4ade80"),
       emit_triangle("accents", P(380, 690), P(415, 610), P(450, 690), "#38bdf8"),
       emit_triangle("accents", P(600, 685), P(635, 615), P(670, 685), "#f97316") >>

SrcAccents ==
    << polygon("accents", "#4ade80", <<P(120, 680), P(155, 600), P(190, 680)>>),
       polygon("accents", "#38bdf8", <<P(380, 690), P(415, 610), P(450, 690)>>),
       polygon("accents", "#f97316", <<P(600, 685), P(635, 615), P(670, 685)>>) >>

(* ------------------------------ state machine -------------------------- *)
Sides == {s * (tile_sz + 1) : s \in 1..MaxSide} \cup {DefaultSide}

Init ==
    /\ variant \in Variants
    /\ W \in Sides
    /\ H \in Sides
    /\ pc = "header"
    /\ idx = 0 /\ arm = 0 /\ seg = 0 /\ row = 0 /\ col = 0 /\ k = 0
    /\ last = NoRecord
    /\ count = [l \in LayerSet |-> 0]
    /\ textures = {}

\* the document after writing record rec
Write(rec) ==
    /\ last' = rec
    /\ count' = [count EXCEPT ![rec.layer] = @ + 1]

\* position idx of a fixed list of n records; the layer after it is nxt
ListStep(n, nxt) ==
    IF idx < n THEN pc' = pc /\ idx' = idx + 1
               ELSE pc' = nxt /\ idx' = IF nxt = "footer" \/ nxt = "spiral" THEN 0 ELSE 1

\* for arm in range(arms): for i in range(segs)
SpiralStep(arms, segs) ==
    IF seg + 1 < segs THEN pc' = pc /\ arm' = arm /\ seg' = seg + 1
    ELSE IF arm + 1 < arms THEN pc' = pc /\ arm' = arm + 1 /\ seg' = 0
    ELSE pc' = "diamond" /\ arm' = 0 /\ seg' = 0

\* for row in range(rows): for col in range(cols): next cell, or the panels
CellStep(rows, cols) ==
    IF col + 1 < cols THEN pc' = pc /\ row' = row /\ col' = col + 1 /\ idx' = idx
    ELSE IF row + 1 < rows THEN pc' = pc /\ row' = row + 1 /\ col' = 0 /\ idx' = idx
    ELSE pc' = "panels" /\ row' = 0 /\ col' = 0 /\ idx' = 1

(* hw1: src/hw1/svg_competition.py main() *)
\* the texture is never declared
Hw1HeaderNoTexture ==
    /\ variant = "hw1" /\ pc = "header"
    /\ UNCHANGED <<last, count, textures>>
    /\ pc' = "background" /\ idx' = 1
    /\ UNCHANGED <<variant, W, H, arm, seg, row, col, k>>

Hw1Header ==
    /\ variant = "hw1" /\ pc = "header"
    /\ Write(texture("map"))
    /\ textures' = textures \cup {"map"}
    /\ pc' = "background" /\ idx' = 1
    /\ UNCHANGED <<variant, W, H, arm, seg, row, col, k>>

Hw1BackgroundStep ==
    /\ variant = "hw1" /\ pc = "background"
    /\ Write(Hw1Background(W, H)[idx])
    /\ ListStep(Len(Hw1Background(W, H)), "spiral")
    /\ UNCHANGED <<variant, W, H, arm, seg, row, col, k, textures>>

Hw1SpiralStep ==
    /\ variant = "hw1" /\ pc = "spiral"
    /\ Write(Hw1Wedge(W, H, arm, seg))
    /\ SpiralStep(n_arms, triangles_per_arm)
    /\ UNCHANGED <<variant, W, H, idx, row, col, k, textures>>

Hw1DiamondSkip ==
    /\ variant = "hw1" /\ pc = "diamond"
    /\ Hw1Skip(W, H, row, col)
    /\ CellStep(Hw1Rows(H), Hw1Cols(W))
    /\ UNCHANGED <<variant, W, H, arm, seg, k, last, count, textures>>

Hw1DiamondStep ==
    /\ variant = "hw1" /\ pc = "diamond"
    /\ ~Hw1Skip(W, H, row, col)
    /\ Write(Hw1DiamondTri(row, col, k))
    /\ IF k + 1 < 4
       THEN k' = k + 1 /\ UNCHANGED <<pc, row, col, idx>>
       ELSE k' = 0 /\ CellStep(Hw1Rows(H), Hw1Cols(W))
    /\ UNCHANGED <<variant, W, H, arm, seg, textures>>

Hw1PanelStep ==
    /\ variant = "hw1" /\ pc = "panels"
    /\ Write(Hw1Panels(W, H)[idx])
    /\ ListStep(Len(Hw1Panels(W, H)), "hills")
    /\ UNCHANGED <<variant, W, H, arm, seg, row, col, k, textures>>

Hw1HillStep ==
    /\ variant = "hw1" /\ pc = "hills"
    /\ Write(Hw1Hills(W, H)[idx])
    /\ ListStep(Len(Hw1Hills(W, H)), "accents")
    /\ UNCHANGED <<variant, W, H, arm, seg, row, col, k, textures>>

Hw1AccentStep ==
    /\ variant = "hw1" /\ pc = "accents"
    /\ Write(Hw1Accents[idx])
    /\ ListStep(Len(Hw1Accents), "footer")
    /\ UNCHANGED <<variant, W, H, arm, seg, row, col, k, textures>>

Hw1Footer ==
    /\ variant = "hw1" /\ pc = "footer"
    /\ Write(footer)
    /\ pc' = "done"
    /\ UNCHANGED <<variant, W, H, idx, arm, seg, row, col, k, textures>>

(* src: src/src/generate_competition_svg.py main() *)
SrcHeader ==
    /\ variant = "src" /\ pc = "header"
    /\ Write(texture("map"))
    /\ textures' = textures \cup {"map"}
    /\ pc' = "background" /\ idx' = 1
    /\ UNCHANGED <<variant, W, H, arm, seg, row, col, k>>

SrcBackgroundStep ==
    /\ variant = "src" /\ pc = "background"
    /\ Write(SrcBackground(W, H)[idx])
    /\ ListStep(Len(SrcBackground(W, H)), "spiral")
    /\ UNCHANGED <<variant, W, H, arm, seg, row, col, k, textures>>

SrcSpiralStep ==
    /\ variant = "src" /\ pc = "spiral"
    /\ Write(SrcWedge(W, H, arm, seg))
    /\ SpiralStep(num_arms, segments_per_arm)
    /\ UNCHANGED <<variant, W, H, idx, row, col, k, textures>>

SrcDiamondSkip ==
    /\ variant = "src" /\ pc = "diamond"
    /\ SrcSkip(W, H, row, col)
    /\ CellStep(SrcRows(H), SrcCols(W))
    /\ UNCHANGED <<variant, W, H, arm, seg, k, last, count, textures>>

SrcDiamondStep ==
    /\ variant = "src" /\ pc = "diamond"
    /\ ~SrcSkip(W, H, row, col)
    /\ Write(SrcDiamondTri(row, col, k))
    /\ IF k + 1 < 4
       THEN k' = k + 1 /\ UNCHANGED <<pc, row, col, idx>>
       ELSE k' = 0 /\ CellStep(SrcRows(H), SrcCols(W))
    /\ UNCHANGED <<variant, W, H, arm, seg, textures>>

SrcPanelStep ==
    /\ variant = "src" /\ pc = "panels"
    /\ Write(SrcPanels(W, H)[idx])
    /\ ListStep(Len(SrcPanels(W, H)), "hills")
    /\ UNCHANGED <<variant, W, H, arm, seg, row, col, k, textures>>

SrcHillStep ==
    /\ variant = "src" /\ pc = "hills"
    /\ Write(SrcHills(W, H)[idx])
    /\ ListStep(Len(SrcHills(W, H)), "accents")
    /\ UNCHANGED <<variant, W, H, arm, seg, row, col, k, textures>>

SrcAccentStep ==
    /\ variant = "src" /\ pc = "accents"
    /\ Write(SrcAccents[idx])
    /\ ListStep(Len(SrcAccents), "footer")
    /\ UNCHANGED <<variant, W, H, arm, seg, row, col, k, textures>>

SrcFooter ==
    /\ variant = "src" /\ pc = "footer"
    /\ Write(footer)
    /\ pc' = "done"
    /\ UNCHANGED <<variant, W, H, idx, arm, seg, row, col, k, textures>>

Next ==
    \/ Hw1Header \/ Hw1BackgroundStep \/ Hw1SpiralStep \/ Hw1DiamondSkip \/ Hw1DiamondStep
    \/ Hw1PanelStep \/ Hw1HillStep \/ Hw1AccentStep \/ Hw1Footer
    \/ SrcHeader \/ SrcBackgroundStep \/ SrcSpiralStep \/ SrcDiamondSkip \/ SrcDiamondStep
    \/ SrcPanelStep \/ SrcHillStep \/ SrcAccentStep \/ SrcFooter

Spec == Init /\ [][Next]_vars

(* ------------------------------ properties ----------------------------- *)
Done(layer) ==
    \/ pc = "done"
    \/ pc \in LayerSet /\ Rank(pc) > Rank(layer)

Reference == W = DefaultSide /\ H = DefaultSide

Vertices(rec) == {rec.pts[n] : n \in 1..Len(rec.pts)}

\* a step that writes a record of the diamond layer, for the cell (row, col)
DiamondWritten == pc = "diamond" /\ count'["diamond"] = count["diamond"] + 1

CellCentre == IF variant = "hw1" THEN Hw1Centre(row, col) ELSE SrcCentre(row, col)

CellHalf == IF variant = "hw1" THEN Hw1Half ELSE SrcHalf

CellStepSize == IF variant = "hw1" THEN tile_sz * Scale ELSE diamond_size

Cardinal(c, h) == {Pt(c.x + h, c.y), Pt(c.x - h, c.y), Pt(c.x, c.y + h), Pt(c.x, c.y - h)}

\* C1: every visited cell gets exactly 4 triangles: the records of the
\* diamond layer come in runs of 4 (k = 0, 1, 2, 3) for one cell, each has the
\* cell centre as its first vertex and its two other vertices on a cardinal
\* axis through the centre, at distance half.
C1_DiamondCardinal ==
    [][DiamondWritten =>
         /\ Len(last'.pts) = 3
         /\ last'.pts[1] = CellCentre
         /\ last'.pts[2] \in Cardinal(CellCentre, CellHalf)
         /\ last'.pts[3] \in Cardinal(CellCentre, CellHalf)
         /\ k' = (k + 1) % 4
         /\ (k < 3 => <<pc', row', col'>> = <<pc, row, col>>)
         /\ (k = 3 => <<pc', row', col'>> # <<pc, row, col>>)]_vars

SpiralSize == IF variant = "hw1" THEN n_arms * triangles_per_arm ELSE num_arms * segments_per_arm

\* C2: the spiral layer has num_arms * segments_per_arm triangles, and within
\* an arm the first vertex of a wedge is the second vertex of the wedge
\* written just before it.
C2_SpiralContinuity ==
    /\ [](Done("spiral") => count["spiral"] = SpiralSize /\ SpiralSize = 168)
    /\ [][(pc = "spiral" /\ seg > 0) =>
            /\ last.layer = "spiral" /\ last'.layer = "spiral"
            /\ last'.pts[1] = last.pts[2]]_vars

C2_Witness == pc = "spiral" /\ arm = n_arms - 1 /\ seg = triangles_per_arm - 1 /\ last.layer = "spiral"

\* t1 and t2 split the axis-aligned rectangle [x0, x1] x [y0, y1] along one
\* of its diagonals: each is a triangle of three corners, they share exactly
\* the two ends of a diagonal, and together they use all four corners.
SplitsRect(t1, t2, x0, y0, x1, y1) ==
    LET corners == {Pt(x0, y0), Pt(x1, y0), Pt(x1, y1), Pt(x0, y1)}
    IN  /\ x0 < x1 /\ y0 < y1
        /\ Len(t1.pts) = 3 /\ Len(t2.pts) = 3
        /\ Cardinality(Vertices(t1)) = 3 /\ Cardinality(Vertices(t2)) = 3
        /\ Vertices(t1) \cup Vertices(t2) = corners
        /\ Vertices(t1) \cap Vertices(t2) \in {{Pt(x0, y0), Pt(x1, y1)}, {Pt(x1, y0), Pt(x0, y1)}}

\* t1, t2 are the triangles (0,1,2) and (0,2,3) of a quad c0..c3 with uv0..uv3
QuadPair(t1, t2) ==
    LET c0 == t1.pts[1]
        c1 == t1.pts[2]
        c2 == t1.pts[3]
        c3 == t2.pts[3]
        uv0 == t1.uvs[1]
        uv1 == t1.uvs[2]
        uv2 == t1.uvs[3]
        uv3 == t2.uvs[3]
    IN  /\ t1.kind = "textri" /\ t2.kind = "textri"
        /\ Len(t1.pts) = 3 /\ Len(t1.uvs) = 3 /\ Len(t2.pts) = 3 /\ Len(t2.uvs) = 3
        /\ t2.pts[1] = c0 /\ t2.pts[2] = c2
        /\ t2.uvs[1] = uv0 /\ t2.uvs[2] = uv2
        \* c0..c3 go round an axis-aligned rectangle, and so do uv0..uv3
        /\ c0.y = c1.y /\ c1.x = c2.x /\ c2.y = c3.y /\ c3.x = c0.x
        /\ uv0.v = uv1.v /\ uv1.u = uv2.u /\ uv2.v = uv3.v /\ uv3.u = uv0.u
        /\ (c0.x < c1.x) = (uv0.u < uv1.u) /\ (c1.y < c2.y) = (uv1.v < uv2.v)
        /\ uv0.u # uv1.u /\ uv1.v # uv2.v
        /\ SplitsRect(t1, t2, c0.x, c0.y, c2.x, c2.y)
        /\ Vertices(t1) \cap Vertices(t2) = {c0, c2}

\* C3: the panel records come in pairs, the triangles (0,1,2) and (0,2,3) of
\* one quad; the k-th uv of each triangle belongs to the corner of its k-th
\* point, and the pair splits the panel rectangle along the diagonal c0-c2.
C3_QuadPairs ==
    /\ [](Done("panels") => count["panels"] % 2 = 0 /\ count["panels"] > 0)
    /\ [][(pc = "panels" /\ idx % 2 = 0) => QuadPair(last, last')]_vars

C3_Witness == pc = "panels" /\ idx = 5 /\ last.kind = "textri" /\ variant = "hw1"

BackgroundOf == IF variant = "hw1" THEN Hw1Background(W, H) ELSE SrcBackground(W, H)

\* C4: the background is 4 triangles on the 6 points (0|W, 0|H/2|H); the
\* first two split the upper half [0,W] x [0,H/2] along a diagonal and the
\* last two the lower half [0,W] x [H/2,H], so the canvas is covered once.
C4_BackgroundCovers ==
    Done("background") =>
        /\ count["background"] = 4
        /\ Len(BackgroundOf) = 4
        /\ UNION {Vertices(BackgroundOf[n]) : n \in 1..4}
             = {Pt(x, y) : x \in {0, W * Scale}, y \in {0, (H * Scale) \div 2, H * Scale}}
        /\ 2 * ((H * Scale) \div 2) = H * Scale
        /\ SplitsRect(BackgroundOf[1], BackgroundOf[2], 0, 0, W * Scale, (H * Scale) \div 2)
        /\ SplitsRect(BackgroundOf[3], BackgroundOf[4], 0, (H * Scale) \div 2, W * Scale, H * Scale)

\* an odd height, where H / 2 is not an integer
C4_Witness == pc = "spiral" /\ last = BackgroundOf[4] /\ count["background"] = 4 /\ H % 2 = 1

LayerRank(layer) == IF layer \in LayerSet THEN Rank(layer) ELSE 0

HillsOf == IF variant = "hw1" THEN Hw1Hills(W, H) ELSE SrcHills(W, H)

\* C5: records are written layer after layer: texture declaration,
\* background, spiral, diamonds, panels, hills, accents, footer; the hills
\* in their listed order; the footer directly after an accent; a textured
\* triangle only names a texture declared before it.
C5_LayerOrder ==
    [][last' # last =>
         /\ LayerRank(last'.layer) >= LayerRank(last.layer)
         /\ (last'.layer = "hills" => last' = HillsOf[count["hills"] + 1])
         /\ (last'.kind = "footer" => last.layer = "accents" /\ last.kind = "polygon")
         /\ (last'.kind = "textri" => last'.texid \in textures /\ count["texture"] = 1)
         /\ (last'.layer = "background" => last'.kind = "polygon" /\ last.kind \in {"texture", "polygon"})
         /\ (last'.layer = "accents" => count["hills"] = 3)]_vars

C5_Witness == pc = "done" /\ last.kind = "footer" /\ count["accents"] > 0 /\ count["hills"] > 0

\* C6: on the 800 x 800 canvas a finished document has 1 texture
\* declaration, 6 textured triangles, 4 background triangles, 3 accents and
\* 3 hills, and every textured triangle names the one declared texture.
C6_ReferenceCounts ==
    Reference =>
        /\ (last.kind = "textri" => textures = {last.texid})
        /\ (pc = "done" =>
              /\ count["texture"] = 1 /\ Cardinality(textures) = 1
              /\ count["panels"] = 6
              /\ count["background"] = 4
              /\ count["accents"] = 3
              /\ count["hills"] = 3)

C6_Witness == Reference /\ pc = "done" /\ count["panels"] = 6

\* arm and segment of the most recent spiral record
LastArm == (count["spiral"] - 1) \div segments_per_arm

LastSeg == (count["spiral"] - 1) % segments_per_arm

WedgeOf(a, i) == IF variant = "hw1" THEN Hw1Wedge(W, H, a, i) ELSE SrcWedge(W, H, a, i)

Rotated(p, da) == [p EXCEPT !.a = @ + da]

SamePoint(p, q) == p.cx = q.cx /\ p.cy = q.cy /\ p.r = q.r /\ (p.a - q.a) % Turn = 0

\* C7: the outer points of arm a are at angle 2 pi a / num_arms + t * sweep
\* (sweep one or two turns), so the wedge i of arm a is the wedge i of arm
\* a - 1 turned by 2 pi / num_arms about the centre, and a different triangle.
C7_ArmsEvenlySpaced ==
    (last.layer = "spiral" /\ pc = "spiral") =>
        /\ \E sweep \in {Turn, 2 * Turn} :
              /\ last.pts[1].a = (Turn * LastArm) \div num_arms + (LastSeg * sweep) \div segments_per_arm
              /\ last.pts[2].a = (Turn * LastArm) \div num_arms + ((LastSeg + 1) * sweep) \div segments_per_arm
        /\ LastArm >= 1 =>
              /\ \A m \in 1..3 :
                    last.pts[m] = Rotated(WedgeOf(LastArm - 1, LastSeg).pts[m], Turn \div num_arms)
              /\ \E m \in 1..3 : ~SamePoint(last.pts[m], WedgeOf(LastArm - 1, LastSeg).pts[m])

\* C8 as claimed: the centre of every diamond written is within half a grid
\* step of the canvas.
C8_HalfCellMargin ==
    last.layer = "diamond" =>
        /\ 2 * last.pts[1].x >= -CellStepSize /\ 2 * last.pts[1].x <= 2 * W * Scale + CellStepSize
        /\ 2 * last.pts[1].y >= -CellStepSize /\ 2 * last.pts[1].y <= 2 * H * Scale + CellStepSize

\* C8 amended: the centre of every diamond written is at most two grid
\* steps right of the canvas and one grid step below it (and not more than
\* half a step left of or above it).
C8_CellMargin ==
    [][DiamondWritten =>
         /\ last'.pts[1] = CellCentre
         /\ 2 * CellCentre.x >= -CellStepSize /\ CellCentre.x <= W * Scale + 2 * CellStepSize
         /\ 2 * CellCentre.y >= -CellStepSize /\ CellCentre.y <= H * Scale + CellStepSize]_vars

C8_Witness ==
    /\ last.layer = "diamond"
    /\ 2 * last.pts[1].x > 2 * W * Scale + CellStepSize
    /\ last.pts[1].x <= W * Scale + 2 * CellStepSize

PanelsOf == IF variant = "hw1" THEN Hw1Panels(W, H) ELSE SrcPanels(W, H)

\* the canvas rectangle of panel n: the bounding box of its two triangles
Box(n) ==
    LET vs == Vertices(PanelsOf[2 * n - 1]) \cup Vertices(PanelsOf[2 * n])
        xs == {v.x : v \in vs}
        ys == {v.y : v \in vs}
    IN  [x0 |-> CHOOSE x \in xs : \A z \in xs : x <= z,
         x1 |-> CHOOSE x \in xs : \A z \in xs : x >= z,
         y0 |-> CHOOSE y \in ys : \A z \in ys : y <= z,
         y1 |-> CHOOSE y \in ys : \A z \in ys : y >= z]

IsRect(n) ==
    LET b == Box(n)
    IN  /\ b.x0 < b.x1 /\ b.y0 < b.y1
        /\ Vertices(PanelsOf[2 * n - 1]) \cup Vertices(PanelsOf[2 * n])
             = {Pt(b.x0, b.y0), Pt(b.x1, b.y0), Pt(b.x1, b.y1), Pt(b.x0, b.y1)}

\* the interiors of two boxes do not meet
Apart(a, b) == a.x1 <= b.x0 \/ b.x1 <= a.x0 \/ a.y1 <= b.y0 \/ b.y1 <= a.y0

\* C9 as claimed: on the 800 x 800 canvas the three panels are axis-aligned
\* rectangles with pairwise disjoint interiors.
C9_PanelsApart ==
    (Reference /\ Done("panels")) =>
        /\ \A n \in 1..3 : IsRect(n)
        /\ \A m, n \in 1..3 : m # n => Apart(Box(m), Box(n))

\* C9 amended: on the 800 x 800 canvas the three panels are axis-aligned
\* rectangles; the first is disjoint from the second and from the third, and
\* the second and third overlap in [544, 596] x [496, 511].
C9_PanelsLayout ==
    (Reference /\ Done("panels")) =>
        /\ count["panels"] = 6
        /\ \A n \in 1..3 : IsRect(n)
        /\ Apart(Box(1), Box(2)) /\ Apart(Box(1), Box(3))
        /\ ~Apart(Box(2), Box(3))
        /\ Box(3).x0 = 544 * Scale /\ Box(2).x1 = 596 * Scale
        /\ Box(2).y0 = 496 * Scale /\ Box(3).y1 = 511 * Scale
        /\ Box(2).x0 <= Box(3).x0 /\ Box(2).x1 <= Box(3).x1
        /\ Box(3).y0 <= Box(2).y0 /\ Box(3).y1 <= Box(2).y1

C9_Witness == Reference /\ pc = "hills" /\ count["panels"] = 6 /\ last = PanelsOf[6]

Baseline(rec) ==
    /\ Len(rec.pts) >= 3
    /\ rec.pts[Len(rec.pts) - 1] = Pt(W * Scale, H * Scale)
    /\ rec.pts[Len(rec.pts)] = Pt(0, H * Scale)

\* C10 as claimed: each hill has more vertices than the hill written before
\* it, and every hill ends with (W, H), (0, H).
C10_HillsIncreasing ==
    /\ [](last.layer = "hills" => Baseline(last))
    /\ [][(pc = "hills" /\ idx > 1) => Len(last'.pts) > Len(last.pts)]_vars

\* C10 amended: each hill has at least as many vertices as the hill written
\* before it (8, 8, 9), and every hill ends with (W, H), (0, H).
C10_HillsNonDecreasing ==
    /\ [](last.layer = "hills" => Baseline(last))
    /\ [](Done("hills") => count["hills"] = 3)
    /\ [][(pc = "hills" /\ idx > 1) =>
            /\ last.layer = "hills" /\ last'.layer = "hills"
            /\ Len(last'.pts) >= Len(last.pts)
            /\ Len(last'.pts) = (IF idx = 3 THEN 9 ELSE 8)]_vars

C10_Witness == pc = "accents" /\ last.layer = "hills" /\ Len(last.pts) = 9 /\ count["hills"] = 3
====
